---- MODULE Spec2Model ----
(***************************************************************************)
(* Verification model of the Weego pricing simulator (src/app.py).         *)
(*                                                                         *)
(* Numbers.  The script computes with Python floats.  The model computes   *)
(* with exact rationals (reduced fractions), so every equality below is an *)
(* equality of real numbers; binary rounding of the last digit of a float  *)
(* is outside the model.  A cell of a loaded table is a value: a number, a *)
(* NaN (an empty cell) or a piece of text (a non-numeric cell).            *)
(***************************************************************************)
EXTENDS Integers, Sequences, FiniteSets, TLC

VARIABLES
    pc,                \* position of the script run
    env,               \* the outside world: the spreadsheet sources
    gsheet,            \* arguments of the last load_parameters call
    loads,             \* number of assignments to (cities_data, multipliers)
    cities_data,       \* module global, line 12 / line 121
    cities_keys,       \* list(cities_data.keys()): the dict's insertion order
    multipliers,       \* module global, line 12 / line 121
    warnings,          \* st.warning messages emitted by load_parameters
    ville, distance, coeff_pression,        \* widgets, lines 128-130
    normal_shift, weekend, holiday,         \* widgets, lines 133-135
    city_data,         \* line 146
    base_fixe, tarif_km, mult_total, distance_cost, base_plus_distance,
    subtotal, benef_supplier, prix_transporteur, benef_weego, prix_weego,
    errors,            \* st.error messages emitted by the calculation
    exc,               \* the exception that escaped to top level, or "none"
    t_brackets, t_d1, t_d2, t_r1, t_r2      \* get_tarif_km called on its own

inputVars == <<ville, distance, coeff_pression, normal_shift, weekend, holiday>>
calcVars == <<base_fixe, tarif_km, mult_total, distance_cost, base_plus_distance,
              subtotal, benef_supplier, prix_transporteur, benef_weego, prix_weego>>
paramVars == <<gsheet, loads, cities_data, cities_keys, multipliers, warnings>>
rateVars == <<t_brackets, t_d1, t_d2, t_r1, t_r2>>
vars == <<pc, env, paramVars, inputVars, city_data, calcVars, errors, exc, rateVars>>

-----------------------------------------------------------------------------
(* Bounds of the model.                                                    *)

\* number of distance tiers a schedule handed to get_tarif_km may hold
MaxTier == 3
\* number of city rows a rate table may hold
MaxRows == 2
\* distances tried by the direct calls of get_tarif_km: 0, 5, .. , 5*MaxDist5
MaxDist5 == 11

-----------------------------------------------------------------------------
(* Values and arithmetic.                                                  *)

Abs(i) == IF i < 0 THEN -i ELSE i

RECURSIVE GCD(_, _)
GCD(a, b) == IF b = 0 THEN a ELSE GCD(b, a % b)

\* the number n/d (d > 0), reduced
Rat(n, d) ==
    LET g == GCD(Abs(n), d)
    IN  [k |-> "num", s |-> "", n |-> n \div g, d |-> d \div g]

\* an empty cell as pandas delivers it
NaN == [k |-> "nan", s |-> "", n |-> 0, d |-> 1]
\* a piece of text: a city name, a non-numeric cell
Text(str) == [k |-> "str", s |-> str, n |-> 0, d |-> 1]
\* Python's None
None == [k |-> "none", s |-> "", n |-> 0, d |-> 1]

IsNum(x) == x.k = "num"
\* Python float * float; a NaN operand gives NaN.  The caller has ruled out text.
Mul(x, y) ==
    IF x.k = "nan" \/ y.k = "nan" THEN NaN
    ELSE LET g1 == GCD(Abs(x.n), y.d)
             g2 == GCD(Abs(y.n), x.d)
         IN  [k |-> "num", s |-> "",
              n |-> (x.n \div g1) * (y.n \div g2),
              d |-> (x.d \div g2) * (y.d \div g1)]

\* Python float + float
Add(x, y) ==
    IF x.k = "nan" \/ y.k = "nan" THEN NaN
    ELSE LET g == GCD(x.d, y.d)
         IN  Rat(x.n * (y.d \div g) + y.n * (x.d \div g), (x.d \div g) * y.d)

\* x >= y on numbers
Geq(x, y) == x.n * y.d >= y.n * x.d

Zero == Rat(0, 1)
One == Rat(1, 1)

\* the empty dict
EmptyDict == [x \in {} |-> Zero]

-----------------------------------------------------------------------------
(* get_tarif_km, lines 138-144.                                            *)

\* sorted(brackets.items(), key=cutoff, reverse=True), as the list of cutoffs
RECURSIVE sorted_brackets(_)
sorted_brackets(cutoffs) ==
    IF cutoffs = {} THEN <<>>
    ELSE LET m == CHOOSE c \in cutoffs : \A o \in cutoffs : Geq(c, o)
         IN  <<m>> \o sorted_brackets(cutoffs \ {m})

\* variant of NoMatchRate: the first entry of the sorted list, not the last
NoMatchRate_first(brackets, sb) == brackets[sb[1]]
\* line 144: the value returned when the loop ends without a match
NoMatchRate(brackets, sb) == brackets[sb[Len(sb)]]

\* variant of Qualifies: distance > cutoff
Qualifies_strict(dist, cutoff) == ~Geq(cutoff, dist)
\* line 142: the test of one bracket
Qualifies(dist, cutoff) == Geq(dist, cutoff)

\* lines 141-144: the loop over the sorted brackets, from position i
RECURSIVE RateLoop(_, _, _, _)
RateLoop(dist, brackets, sb, i) ==
    IF i > Len(sb) THEN NoMatchRate(brackets, sb)
    ELSE IF Qualifies(dist, sb[i]) THEN brackets[sb[i]]
    ELSE RateLoop(dist, brackets, sb, i + 1)

get_tarif_km(dist, brackets) ==
    IF DOMAIN brackets = {} THEN Zero
    ELSE RateLoop(dist, brackets, sorted_brackets(DOMAIN brackets), 1)

-----------------------------------------------------------------------------
(* The spreadsheet sources.  A table is [cols, rows]: the column headers   *)
(* and the rows, each row a sequence of cells in column order.             *)

\* what one city's row holds under each header that may appear in a sheet
RowContents ==
    << [name |-> Text("Tanger"), base |-> Rat(1, 1),
        r10 |-> Rat(13, 2), r30 |-> Rat(11, 2), r50 |-> Rat(9, 2)],
       [name |-> Text("Casablanca"), base |-> Rat(3, 1),
        r10 |-> Rat(15, 2), r30 |-> Rat(6, 1), r50 |-> Rat(5, 1)],
       \* a blank cell, and a rate that rises with distance
       [name |-> Text("Rabat"), base |-> Rat(2, 1),
        r10 |-> NaN, r30 |-> Rat(5, 1), r50 |-> Rat(6, 1)],
       \* a non-numeric base charge
       [name |-> Text("Fes"), base |-> Text("n/a"),
        r10 |-> Rat(13, 2), r30 |-> Rat(11, 2), r50 |-> Rat(9, 2)],
       \* a non-numeric rate, and no rate at all in the last tier
       [name |-> Text("Agadir"), base |-> Rat(2, 1),
        r10 |-> Rat(7, 1), r30 |-> Text("sur devis"), r50 |-> NaN],
       \* a blank base charge, and a second row for a city already listed
       [name |-> Text("Tanger"), base |-> NaN,
        r10 |-> NaN, r30 |-> NaN, r50 |-> NaN] >>

CellOf(content, header) ==
    CASE header \in {"Ville", "Nom"} -> content.name
      [] header \in {"Base", "Prix"} -> content.base
      [] header = "10 km" -> content.r10
      [] header = "30" -> content.r30
      [] header = "50 km" -> content.r50
      [] OTHER -> Text("-")

Layouts ==
    { <<"Ville", "Base", "10 km", "30", "50 km">>,
      <<"Base", "Ville", "10 km", "Note", "50 km">>,
      <<"Nom", "Prix", "10 km", "30", "50 km">>,
      <<"Ville">> }

\* the strictly increasing index sequences of at most MaxRows rows
RowChoices ==
    { q \in UNION { [1..m -> 1..Len(RowContents)] : m \in 0..MaxRows } :
        \A i \in 1..(Len(q) - 1) : q[i] < q[i + 1] }

RateTables ==
    { [cols |-> l,
       rows |-> [i \in 1..Len(q) |->
                    [j \in 1..Len(l) |-> CellOf(RowContents[q[i]], l[j])]]] :
        l \in Layouts, q \in RowChoices }

MultKeys == {"non_normal", "weekend", "holiday"}

\* the multiplier each key has in the built-in dataset (line 106) and as the
\* default of the lookups of lines 153-157
DocumentedDefault(key) ==
    CASE key = "non_normal" -> Rat(3, 4)
      [] key = "weekend" -> Rat(93, 100)
      [] key = "holiday" -> Rat(11, 10)

KeyOrder == <<"non_normal", "weekend", "holiday">>

\* the (Type, Value) rows of the keys in present, each with the value val gives it
RECURSIVE MultRows(_, _, _)
MultRows(present, val, i) ==
    IF i > Len(KeyOrder) THEN <<>>
    ELSE (IF KeyOrder[i] \in present
          THEN << <<Text(KeyOrder[i]), val[KeyOrder[i]]>> >> ELSE <<>>)
         \o MultRows(present, val, i + 1)

DocumentedValues == [key \in MultKeys |-> DocumentedDefault(key)]
OtherValues ==
    [key \in MultKeys |->
        CASE key = "non_normal" -> Rat(3, 2)
          [] key = "weekend" -> Text("x")
          [] key = "holiday" -> NaN]

MultTables ==
    { [cols |-> <<"Type", "Value">>, rows |-> MultRows(present, DocumentedValues, 1)] :
        present \in SUBSET MultKeys }
    \cup { [cols |-> <<"Type", "Value">>, rows |-> MultRows(MultKeys, OtherValues, 1)],
           \* a row typed twice: the later one wins in dict(zip(...))
           [cols |-> <<"Type", "Value">>,
            rows |-> << <<Text("weekend"), Rat(1, 1)>>, <<Text("weekend"), Rat(9, 10)>> >>],
           \* a sheet without the Type column
           [cols |-> <<"Cle", "Value">>, rows |-> << <<Text("weekend"), Rat(93, 100)>> >>] }

\* the sheets of a workbook kept in order: the two cities of the built-in
\* dataset (as many of them as MaxRows allows), the three documented multipliers
ReferenceRates ==
    CHOOSE t \in RateTables :
        /\ t.cols = <<"Ville", "Base", "10 km", "30", "50 km">>
        /\ Len(t.rows) = (IF MaxRows < 2 THEN MaxRows ELSE 2)
        /\ \A i \in 1..Len(t.rows) : t.rows[i][1] = RowContents[i].name
ReferenceMults ==
    CHOOSE t \in MultTables : t.cols[1] = "Type" /\ Len(t.rows) = 3
                              /\ \A i \in 1..3 : t.rows[i][2] = DocumentedDefault(KeyOrder[i])

\* remote: the two CSV exports of lines 8-9; local: pricing_parameters.xlsx.
\* Both hold the sheets rates and mults when they can be read at all.  The
\* sheets vary one at a time against the reference of the other.
Envs ==
    { e \in [remote : {"ok", "unreachable"}, local : {"ok", "missing", "corrupt"},
             rates : RateTables, mults : MultTables] :
        /\ e.rates = ReferenceRates \/ e.mults = ReferenceMults
        /\ (e.remote = "ok" \/ e.local = "ok")
               \/ (e.rates = ReferenceRates /\ e.mults = ReferenceMults) }

-----------------------------------------------------------------------------
(* load_parameters, lines 49-106.                                          *)

\* lines 103-106
FallbackCities ==
    (Text("Tanger") :> [base |-> Rat(1, 1),
                        brackets |-> (Rat(10, 1) :> Rat(13, 2) @@ Rat(30, 1) :> Rat(11, 2)
                                      @@ Rat(50, 1) :> Rat(9, 2))])
    @@ (Text("Casablanca") :> [base |-> Rat(3, 1),
                               brackets |-> (Rat(10, 1) :> Rat(15, 2) @@ Rat(30, 1) :> Rat(6, 1)
                                             @@ Rat(50, 1) :> Rat(5, 1))])

FallbackMultipliers == [key \in MultKeys |-> DocumentedDefault(key)]

Fallback ==
    [cities |-> FallbackCities, mult |-> FallbackMultipliers, ordered |-> <<Text("Tanger"), Text("Casablanca")>>,
     warn |-> <<"Erreur chargement parametres">>]

\* the headers c with 'ville' in str(c).lower(), with 'base' in str(c).lower()
HeadersWithVille == {"Ville"}
HeadersWithBase == {"Base"}

\* float(str(col).replace(" km", "").strip()): [ok, value]
ParseCutoff(header) ==
    CASE header = "10 km" -> [ok |-> TRUE, value |-> Rat(10, 1)]
      [] header = "30" -> [ok |-> TRUE, value |-> Rat(30, 1)]
      [] header = "50 km" -> [ok |-> TRUE, value |-> Rat(50, 1)]
      [] OTHER -> [ok |-> FALSE, value |-> Zero]

\* lines 73-74: next((c for c in columns if ...), columns[default])
FirstIndex(cols, matching, default) ==
    IF \E j \in 1..Len(cols) : cols[j] \in matching
    THEN CHOOSE j \in 1..Len(cols) :
            cols[j] \in matching /\ \A i \in 1..(j - 1) : cols[i] \notin matching
    ELSE default

\* lines 80-90: the brackets of one row
RowBrackets(cols, row, city_col, base_col) ==
    LET used == { j \in 1..Len(cols) :
                    /\ cols[j] \notin {cols[city_col], cols[base_col]}
                    /\ row[j].k # "nan"
                    /\ ParseCutoff(cols[j]).ok }
        cut(j) == ParseCutoff(cols[j]).value
    IN  [c \in { cut(j) : j \in used } |->
            row[CHOOSE j \in used : cut(j) = c /\ \A i \in used : cut(i) = c => i <= j]]

\* lines 76-91: cities_data after the first n rows
RECURSIVE CitiesAfter(_, _, _, _)
CitiesAfter(table, city_col, base_col, n) ==
    IF n = 0 THEN EmptyDict
    ELSE LET row == table.rows[n]
             entry == [base |-> row[base_col],
                       brackets |-> RowBrackets(table.cols, row, city_col, base_col)]
             before == CitiesAfter(table, city_col, base_col, n - 1)
         IN  (row[city_col] :> entry) @@ before

\* list(cities_data.keys()): the keys in the order of their first insertion
RECURSIVE KeysAfter(_, _, _)
KeysAfter(table, city_col, n) ==
    IF n = 0 THEN <<>>
    ELSE LET before == KeysAfter(table, city_col, n - 1)
             key == table.rows[n][city_col]
         IN  IF \E i \in 1..Len(before) : before[i] = key THEN before
             ELSE Append(before, key)

\* line 94: dict(zip(df_multipliers['Type'], df_multipliers['Value']))
RECURSIVE DictOfRows(_, _, _, _)
DictOfRows(rows, type_col, value_col, n) ==
    IF n = 0 THEN EmptyDict
    ELSE (rows[n][type_col].s :> rows[n][value_col])
         @@ DictOfRows(rows, type_col, value_col, n - 1)

\* line 96: the value setdefault gives a key the sheet does not hold
SetDefaultValue(key) == One

\* lines 94-96
MultiplierMap(table) ==
    LET type_col == CHOOSE j \in 1..Len(table.cols) : table.cols[j] = "Type"
        value_col == CHOOSE j \in 1..Len(table.cols) : table.cols[j] = "Value"
        read == DictOfRows(table.rows, type_col, value_col, Len(table.rows))
    IN  [key \in DOMAIN read \cup MultKeys |->
            IF key \in DOMAIN read THEN read[key] ELSE SetDefaultValue(key)]

\* lines 73-98: the two tables were read; an exception anywhere in these
\* lines (columns[1] of a one-column sheet, a missing 'Type' column) ends in
\* the except clause of line 100
BuildParameters(rates, mults) ==
    IF Len(rates.cols) < 2 \/ ~({"Type", "Value"} \subseteq {mults.cols[j] : j \in 1..Len(mults.cols)})
    THEN Fallback
    ELSE LET city_col == FirstIndex(rates.cols, HeadersWithVille, 1)
             base_col == FirstIndex(rates.cols, HeadersWithBase, 2)
         IN  [cities |-> CitiesAfter(rates, city_col, base_col, Len(rates.rows)),
              ordered |-> KeysAfter(rates, city_col, Len(rates.rows)),
              mult |-> MultiplierMap(mults),
              warn |-> <<>>]

\* lines 65-67: the local workbook does not exist
MissingFileResult ==
    [cities |-> EmptyDict, mult |-> EmptyDict, ordered |-> <<>>,
     warn |-> <<"Aucun fichier local trouve et aucun Google Sheet fourni.">>]

\* the whole function: what it returns, and the warnings it emits, when called
\* with the two arguments given (truthy) or not, the sources being as e says
load_parameters(base_given, mult_given, e) ==
    IF base_given /\ mult_given
    THEN IF e.remote = "ok" THEN BuildParameters(e.rates, e.mults) ELSE Fallback
    ELSE CASE e.local = "missing" -> MissingFileResult
           [] e.local = "corrupt" -> Fallback
           [] OTHER -> BuildParameters(e.rates, e.mults)

-----------------------------------------------------------------------------
(* The calculation, lines 146-168.                                         *)

\* line 153, 155, 157: multipliers.get(key, default)
MultGet(m, key) == IF key \in DOMAIN m THEN m[key] ELSE DocumentedDefault(key)

\* variant of Applies: the off-hours multiplier on the normal shift
Applies_shift_inverted(key, ns, we, ho) ==
    CASE key = "non_normal" -> ns
      [] key = "weekend" -> we
      [] key = "holiday" -> ho
\* lines 152-157: which multipliers are multiplied in
Applies(key, ns, we, ho) ==
    CASE key = "non_normal" -> ~ns
      [] key = "weekend" -> we
      [] key = "holiday" -> ho

\* lines 151-157, in the order of the code
MultTotal(ns, we, ho, m) ==
    LET m0 == One
        m1 == IF Applies("non_normal", ns, we, ho) THEN Mul(m0, MultGet(m, "non_normal")) ELSE m0
        m2 == IF Applies("weekend", ns, we, ho) THEN Mul(m1, MultGet(m, "weekend")) ELSE m1
        m3 == IF Applies("holiday", ns, we, ho) THEN Mul(m2, MultGet(m, "holiday")) ELSE m2
    IN  m3

\* line 149
BaseFixe(base, coeff) == Mul(base, coeff)

\* variant of DistanceCost: the urgency coefficient applied to the distance too
DistanceCost_with_urgency(dist, rate, coeff) == Mul(Mul(dist, rate), coeff)
\* line 159; coeff_pression is at hand and is not used
DistanceCost(dist, rate, coeff) == Mul(dist, rate)

\* line 162
SupplierRate == Rat(10, 100)
\* line 164
WeegoRate == Rat(20, 100)

\* variant of BenefSupplier: the rate of the other margin
BenefSupplier_twenty(sub) == Mul(sub, WeegoRate)
\* line 162
BenefSupplier(sub) == Mul(sub, SupplierRate)

\* variant of BenefWeego: 20% of the subtotal, the margins side by side
BenefWeego_parallel(sub, carrier) == Mul(sub, WeegoRate)
\* line 164: the margin of the platform, given the subtotal and the carrier price
BenefWeego(sub, carrier) == Mul(carrier, WeegoRate)

\* float * x raises TypeError when x is text (lines 149, 153-157, 159)
CalcRaises(city, ns, we, ho, m, rate) ==
    \/ city.base.k = "str"
    \/ \E key \in MultKeys : Applies(key, ns, we, ho) /\ MultGet(m, key).k = "str"
    \/ rate.k = "str"

-----------------------------------------------------------------------------
(* The script.                                                             *)

\* line 130: options of the urgency slider
Coeffs == {Rat(1, 1), Rat(3, 2), Rat(2, 1)}

\* line 129: distances typed into the number input (minimum 0.1, preset 34.0)
Distances == {Rat(1, 10), Rat(10, 1), Rat(59, 2), Rat(30, 1), Rat(34, 1), Rat(75, 1)}

Unset == [called |-> FALSE, base |-> FALSE, mult |-> FALSE]

\* the state before the first statement of the script has run
Blank ==
    /\ gsheet = Unset
    /\ loads = 0
    /\ cities_data = EmptyDict
    /\ cities_keys = <<>>
    /\ multipliers = EmptyDict
    /\ warnings = <<>>
    /\ ville = None /\ distance = None /\ coeff_pression = None
    /\ normal_shift = FALSE /\ weekend = FALSE /\ holiday = FALSE
    /\ city_data = [base |-> None, brackets |-> EmptyDict]
    /\ base_fixe = None /\ tarif_km = None /\ mult_total = None
    /\ distance_cost = None /\ base_plus_distance = None /\ subtotal = None
    /\ benef_supplier = None /\ prix_transporteur = None /\ benef_weego = None
    /\ prix_weego = None
    /\ errors = <<>>
    /\ exc = "none"

\* no direct call of get_tarif_km is under way
NoRateCall ==
    t_brackets = EmptyDict /\ t_d1 = None /\ t_d2 = None /\ t_r1 = None /\ t_r2 = None

\* cities_data, multipliers = load_parameters(...): the assignment of a result
AssignParameters(base_given, mult_given) ==
    LET r == load_parameters(base_given, mult_given, env)
    IN  /\ cities_data' = r.cities
        /\ cities_keys' = r.ordered
        /\ multipliers' = r.mult
        /\ warnings' = warnings \o r.warn
        /\ gsheet' = [called |-> TRUE, base |-> base_given, mult |-> mult_given]
        /\ loads' = loads + 1

\* the names bound at module level when line 12 runs: the imports of lines 1-7
\* and the two constants of lines 8-9.  load_parameters is bound by line 50.
BoundAtLine12 ==
    {"Environment", "FileSystemLoader", "datetime", "st", "pd", "Path", "BytesIO",
     "pisa", "BASE_CSV", "MULT_CSV"}

\* line 12: cities_data, multipliers = load_parameters(BASE_CSV, MULT_CSV)
Line12 ==
    /\ pc = "line12"
    /\ IF "load_parameters" \in BoundAtLine12
       THEN /\ AssignParameters(TRUE, TRUE)
            /\ pc' = "line121"
            /\ exc' = exc
       ELSE /\ exc' = "NameError"
            /\ pc' = "crashed"
            /\ UNCHANGED paramVars
    /\ UNCHANGED <<env, inputVars, city_data, calcVars, errors, rateVars>>

\* line 121: cities_data, multipliers = load_parameters()
Line121 ==
    /\ pc = "line121"
    /\ AssignParameters(FALSE, FALSE)
    /\ pc' = "input"
    /\ UNCHANGED <<env, inputVars, city_data, calcVars, errors, exc, rateVars>>

\* lines 124-135: the widgets return what the user chose; a selectbox without
\* options returns None
CollectInput ==
    /\ pc = "input"
    /\ IF cities_keys = <<>> THEN ville' = None
       ELSE \E i \in 1..Len(cities_keys) : ville' = cities_keys[i]
    /\ distance' \in Distances
    /\ coeff_pression' \in Coeffs
    /\ normal_shift' \in BOOLEAN
    /\ weekend' \in BOOLEAN
    /\ holiday' \in BOOLEAN
    /\ pc' = "line146"
    /\ UNCHANGED <<env, paramVars, city_data, calcVars, errors, exc, rateVars>>

\* line 146: cities_data.get(ville, next(iter(cities_data.values()))); the
\* default is evaluated before the lookup, and next() of an exhausted iterator
\* raises StopIteration outside any try statement
Line146Raises(keys) == keys = <<>>

Line146 ==
    /\ pc = "line146"
    /\ IF Line146Raises(cities_keys)
       THEN /\ exc' = "StopIteration"
            /\ pc' = "crashed"
            /\ UNCHANGED city_data
       ELSE /\ city_data' = IF ville \in DOMAIN cities_data THEN cities_data[ville]
                            ELSE cities_data[cities_keys[1]]
            /\ pc' = "calc"
            /\ exc' = exc
    /\ UNCHANGED <<env, paramVars, inputVars, calcVars, errors, rateVars>>

\* lines 148-168: the try statement; a TypeError anywhere in it leaves every
\* field 0 and one error message (lines 166-168)
Calculate ==
    /\ pc = "calc"
    /\ IF CalcRaises(city_data, normal_shift, weekend, holiday, multipliers,
                     get_tarif_km(distance, city_data.brackets))
       THEN /\ base_fixe' = Zero /\ tarif_km' = Zero /\ mult_total' = Zero
            /\ distance_cost' = Zero /\ base_plus_distance' = Zero /\ subtotal' = Zero
            /\ benef_supplier' = Zero /\ prix_transporteur' = Zero
            /\ benef_weego' = Zero /\ prix_weego' = Zero
            /\ errors' = Append(errors, "Erreur de calcul")
       ELSE /\ base_fixe' = BaseFixe(city_data.base, coeff_pression)
            /\ tarif_km' = get_tarif_km(distance, city_data.brackets)
            /\ mult_total' = MultTotal(normal_shift, weekend, holiday, multipliers)
            /\ distance_cost' = DistanceCost(distance, tarif_km', coeff_pression)
            /\ base_plus_distance' = Add(base_fixe', distance_cost')
            /\ subtotal' = Mul(base_plus_distance', mult_total')
            /\ benef_supplier' = BenefSupplier(subtotal')
            /\ prix_transporteur' = Add(subtotal', benef_supplier')
            /\ benef_weego' = BenefWeego(subtotal', prix_transporteur')
            /\ prix_weego' = Add(prix_transporteur', benef_weego')
            /\ errors' = errors
    /\ pc' = "done"
    /\ UNCHANGED <<env, paramVars, inputVars, city_data, exc, rateVars>>

\* the script as written, from its first statement
InitScript == pc = "line12" /\ env \in Envs /\ Blank /\ NoRateCall
NextScript == Line12
SpecScript == InitScript /\ [][NextScript]_vars

\* the code of lines 121-168, entered with nothing loaded; line 121 reads the
\* local workbook only
InitEngine ==
    pc = "line121" /\ env \in {e \in Envs : e.remote = "unreachable"} /\ Blank /\ NoRateCall
NextEngine == Line121 \/ CollectInput \/ Line146 \/ Calculate
SpecEngine == InitEngine /\ [][NextEngine]_vars

\* load_parameters called on its own, with each argument given or not
CallLoad ==
    /\ pc = "load_call"
    /\ \E base_given \in BOOLEAN, mult_given \in BOOLEAN :
          AssignParameters(base_given, mult_given)
    /\ pc' = "load_returned"
    /\ UNCHANGED <<env, inputVars, city_data, calcVars, errors, exc, rateVars>>

InitLoad == pc = "load_call" /\ env \in Envs /\ Blank /\ NoRateCall
NextLoad == CallLoad
SpecLoad == InitLoad /\ [][NextLoad]_vars

\* get_tarif_km called on its own: one schedule, two distances
TierCutoffs == { Rat(20 * i - 10, 1) : i \in 1..MaxTier }
TierRates == { Rat(9, 2), Rat(11, 2), Rat(13, 2) }
BracketMaps == UNION { [c -> TierRates] : c \in SUBSET TierCutoffs }
TestDistances == { Rat(5 * i, 1) : i \in 0..MaxDist5 }

CallRate1 ==
    /\ pc = "rate1"
    /\ t_r1' = get_tarif_km(t_d1, t_brackets)
    /\ pc' = "rate2"
    /\ UNCHANGED <<env, paramVars, inputVars, city_data, calcVars, errors, exc,
                   t_brackets, t_d1, t_d2, t_r2>>

CallRate2 ==
    /\ pc = "rate2"
    /\ t_r2' = get_tarif_km(t_d2, t_brackets)
    /\ pc' = "rate_done"
    /\ UNCHANGED <<env, paramVars, inputVars, city_data, calcVars, errors, exc,
                   t_brackets, t_d1, t_d2, t_r1>>

InitRate ==
    /\ pc = "rate1"
    /\ env = [remote |-> "unreachable", local |-> "missing",
              rates |-> ReferenceRates, mults |-> ReferenceMults]
    /\ Blank
    /\ t_brackets \in BracketMaps
    /\ t_d1 \in TestDistances
    /\ t_d2 \in TestDistances
    /\ t_r1 = None /\ t_r2 = None
NextRate == CallRate1 \/ CallRate2
SpecRate == InitRate /\ [][NextRate]_vars

-----------------------------------------------------------------------------
(* The claims.                                                             *)

\* the step function of a schedule, stated without sorting: 0 for no bracket,
\* else the rate of the largest cutoff at or below d, else (d below every
\* cutoff) the rate of the smallest cutoff
RefRate(d, b) ==
    LET cuts == DOMAIN b
        atOrBelow == { c \in cuts : Geq(d, c) }
    IN  IF cuts = {} THEN Zero
        ELSE IF atOrBelow # {}
             THEN b[CHOOSE c \in atOrBelow : \A o \in atOrBelow : Geq(c, o)]
             ELSE b[CHOOSE c \in cuts : \A o \in cuts : Geq(o, c)]

\* C1: get_tarif_km(d, brackets) is the step function of the schedule: 0 when
\* there is no bracket, the rate of the largest cutoff <= d (a distance equal
\* to a cutoff takes that cutoff's rate), and the rate of the smallest cutoff
\* when d is below every cutoff.
C1_StepFunction ==
    /\ pc \in {"rate2", "rate_done"} => t_r1 = RefRate(t_d1, t_brackets)
    /\ pc = "rate_done" => t_r2 = RefRate(t_d2, t_brackets)

\* C1 witness: a schedule of several tiers, asked for a distance below every
\* cutoff and for a distance equal to a cutoff above the smallest, the two
\* answers differing.
C1_Witness ==
    /\ pc = "rate_done"
    /\ Cardinality(DOMAIN t_brackets) >= 2
    /\ \A c \in DOMAIN t_brackets : ~Geq(t_d1, c)
    /\ t_d2 \in DOMAIN t_brackets
    /\ \E c \in DOMAIN t_brackets : ~Geq(c, t_d2)
    /\ t_r2 = t_brackets[t_d2]
    /\ t_r1 # t_r2

\* the rates of a schedule never rise from a tier to a higher one
RatesNonIncreasing(b) ==
    \A c1 \in DOMAIN b, c2 \in DOMAIN b : Geq(c2, c1) => Geq(b[c1], b[c2])

\* C8 as stated: for ANY bracket mapping and d1 <= d2, the rate at d1 is at
\* least the rate at d2.
C8_Original ==
    (pc = "rate_done" /\ Geq(t_d2, t_d1)) => Geq(t_r1, t_r2)

\* C8 amended: for a schedule whose rates never rise from a tier to a higher
\* one, and d1 <= d2, the rate at d1 is at least the rate at d2.
C8_Amended ==
    (pc = "rate_done" /\ Geq(t_d2, t_d1) /\ RatesNonIncreasing(t_brackets))
        => Geq(t_r1, t_r2)

\* C8 witness: a discount schedule on which the rate strictly falls between
\* the two distances, the first of them below every cutoff.
C8_Witness ==
    /\ pc = "rate_done"
    /\ RatesNonIncreasing(t_brackets)
    /\ DOMAIN t_brackets # {}
    /\ \A c \in DOMAIN t_brackets : ~Geq(t_d1, c)
    /\ Geq(t_d2, t_d1)
    /\ ~Geq(t_r2, t_r1)

\* the scenario of C2: base 1.0, brackets {10: 6.5, 30: 5.5, 50: 4.5},
\* distance 34, urgency 1.0, normal shift, no weekend, no holiday
C2_Scenario ==
    /\ pc = "done"
    /\ city_data = FallbackCities[Text("Tanger")]
    /\ distance = Rat(34, 1)
    /\ coeff_pression = Rat(1, 1)
    /\ normal_shift /\ ~weekend /\ ~holiday

\* C2 as stated: the scenario gives perKmRate 4.5, baseFixed 1.0, distanceCost
\* 153.0, 154.0 before and after the multiplier 1.0, supplierMargin 15.4,
\* carrierPrice 169.4, platformMargin 33.88, finalPrice 203.28.
C2_Original ==
    C2_Scenario =>
        /\ tarif_km = Rat(45, 10) /\ base_fixe = Rat(1, 1)
        /\ distance_cost = Rat(153, 1) /\ base_plus_distance = Rat(154, 1)
        /\ mult_total = Rat(1, 1) /\ subtotal = Rat(154, 1)
        /\ benef_supplier = Rat(154, 10) /\ prix_transporteur = Rat(1694, 10)
        /\ benef_weego = Rat(3388, 100) /\ prix_weego = Rat(20328, 100)

\* C2 amended: the scenario gives perKmRate 5.5 (the tier of cutoff 30),
\* baseFixed 1.0, distanceCost 187.0, 188.0 before and after the multiplier
\* 1.0, supplierMargin 18.8, carrierPrice 206.8, platformMargin 41.36,
\* finalPrice 248.16.
C2_Amended ==
    C2_Scenario =>
        /\ tarif_km = Rat(55, 10) /\ base_fixe = Rat(1, 1)
        /\ distance_cost = Rat(187, 1) /\ base_plus_distance = Rat(188, 1)
        /\ mult_total = Rat(1, 1) /\ subtotal = Rat(188, 1)
        /\ benef_supplier = Rat(188, 10) /\ prix_transporteur = Rat(2068, 10)
        /\ benef_weego = Rat(4136, 100) /\ prix_weego = Rat(24816, 100)
        /\ errors = <<>>

\* C2 witness: the scenario has been computed, for the city Tanger.
C2_Witness ==
    C2_Scenario /\ ville = Text("Tanger") /\ exc = "none" /\ prix_weego # Zero

AllZero ==
    /\ base_fixe = Zero /\ tarif_km = Zero /\ mult_total = Zero
    /\ distance_cost = Zero /\ base_plus_distance = Zero /\ subtotal = Zero
    /\ benef_supplier = Zero /\ prix_transporteur = Zero
    /\ benef_weego = Zero /\ prix_weego = Zero

\* C3: the pricing computation never raises to the caller: for any loaded
\* parameter set (an empty one included) and any values (non-numeric ones
\* included) no exception escapes to top level, and a finished run holds
\* either the normal breakdown or ten zero fields with exactly one error
\* message.
C3_NeverRaises ==
    /\ exc = "none"
    /\ pc = "done" => (errors = <<>> \/ (AllZero /\ Len(errors) = 1))

\* the source the call was told to read cannot be read
SourceUnusable ==
    IF gsheet.base /\ gsheet.mult THEN env.remote # "ok" ELSE env.local # "ok"

\* C4: whenever the parameter source is unusable (remote tables unreachable,
\* no source given, local workbook missing) load_parameters returns the
\* built-in two-city dataset with the fixed multipliers, and in no case an
\* empty city table or an empty multiplier table.
C4_FallbackNeverEmpty ==
    pc = "load_returned" =>
        /\ SourceUnusable =>
              cities_data = FallbackCities /\ multipliers = FallbackMultipliers
        /\ DOMAIN multipliers # {}
        /\ SourceUnusable => DOMAIN cities_data # {}

\* the Type cells of the multiplier sheet
SourceTypes == { env.mults.rows[i][1].s : i \in 1..Len(env.mults.rows) }

\* the call read its two tables and built its result from them
LoadedFromTables == pc = "load_returned" /\ ~SourceUnusable /\ warnings = <<>>

\* C5: when the multiplier table loads but omits a situational key, the table
\* load_parameters returns holds the documented default of that key
\* (off-hours 0.75, weekend 0.93, holiday 1.1).
C5_DocumentedDefaults ==
    LoadedFromTables =>
        \A key \in MultKeys \ SourceTypes :
            key \in DOMAIN multipliers /\ multipliers[key] = DocumentedDefault(key)

\* the multiplier of a key when its situation applies, else 1
Factor(key, applies) == IF applies THEN MultGet(multipliers, key) ELSE One

\* C6: in a successful computation the combined multiplier is the product of
\* exactly the multipliers whose situation applies (off-hours iff the shift is
\* not the normal one, weekend iff weekend, holiday iff holiday), 1 when none
\* applies, whatever the order of the product; off-hours and weekend with
\* 0.75 and 0.93 give 0.6975.
C6_CombinedMultiplier ==
    (pc = "done" /\ errors = <<>>) =>
        /\ mult_total = Mul(Factor("holiday", holiday),
                            Mul(Factor("weekend", weekend),
                                Factor("non_normal", ~normal_shift)))
        /\ (normal_shift /\ ~weekend /\ ~holiday) => mult_total = One
        /\ (~normal_shift /\ weekend /\ ~holiday /\ multipliers = FallbackMultipliers)
              => mult_total = Rat(6975, 10000)

\* C6 witness: off-hours and weekend, not a holiday, with the multipliers
\* 0.75, 0.93 and 1.1.
C6_Witness ==
    /\ pc = "done" /\ errors = <<>>
    /\ ~normal_shift /\ weekend /\ ~holiday
    /\ multipliers = FallbackMultipliers
    /\ mult_total = Rat(6975, 10000)

\* C7: in every breakdown the margins stack: supplier margin 10% of the
\* subtotal, carrier price their sum, platform margin 20% of the carrier
\* price, final price = subtotal * 1.10 * 1.20.
C7_MarginStacking ==
    pc = "done" =>
        /\ benef_supplier = Mul(subtotal, Rat(10, 100))
        /\ prix_transporteur = Add(subtotal, benef_supplier)
        /\ benef_weego = Mul(prix_transporteur, Rat(20, 100))
        /\ prix_weego = Add(prix_transporteur, benef_weego)
        /\ prix_weego = Mul(Mul(subtotal, Rat(110, 100)), Rat(120, 100))

\* C7 witness: a successful computation with a positive subtotal, whose
\* platform margin is not 20% of the subtotal.
C7_Witness ==
    /\ pc = "done" /\ errors = <<>>
    /\ IsNum(subtotal) /\ subtotal.n > 0
    /\ benef_weego # Mul(subtotal, Rat(20, 100))

\* C9: in every successful computation baseFixed = baseCharge * urgencyCoeff,
\* distanceCost = distance * perKmRate (no urgency in it), the pre-multiplier
\* subtotal is their sum and the post-multiplier subtotal is that sum times
\* the combined multiplier.
C9_UrgencyOnBaseOnly ==
    (pc = "done" /\ errors = <<>>) =>
        /\ base_fixe = Mul(city_data.base, coeff_pression)
        /\ tarif_km = get_tarif_km(distance, city_data.brackets)
        /\ distance_cost = Mul(distance, tarif_km)
        /\ base_plus_distance = Add(base_fixe, distance_cost)
        /\ subtotal = Mul(base_plus_distance, mult_total)

\* C9 witness: a successful computation at urgency 2.0 with a base charge, a
\* distance cost and a combined multiplier other than 1.
C9_Witness ==
    /\ pc = "done" /\ errors = <<>>
    /\ coeff_pression = Rat(2, 1)
    /\ IsNum(city_data.base) /\ city_data.base.n > 0
    /\ IsNum(distance_cost) /\ distance_cost.n > 0
    /\ IsNum(mult_total) /\ mult_total # One
    /\ base_fixe # city_data.base

\* C10: within one run the parameter set is populated exactly once, by the
\* load from the configured external source (the two CSV exports) that comes
\* before input and pricing, and never reassigned: once the first statement
\* of the script has run, one load has happened, with both sources given.
C10_LoadedOnceAtStartup ==
    pc # "line12" =>
        /\ loads = 1
        /\ gsheet = [called |-> TRUE, base |-> TRUE, mult |-> TRUE]

====
